---- MODULE Spec2Model ----
(***************************************************************************)
(* Model of libledriver's LEDriver::Controller (src/ledriver.cpp,          *)
(* src/ledriver.hpp), POSIX build: a move-only handle owning one connected *)
(* UDP socket, with ping() (request/response) and update() (one-way).      *)
(*                                                                         *)
(* The operating system is the environment: it hands out descriptors,      *)
(* decides what every ::socket / ::connect / ::setsockopt / ::sendmsg /    *)
(* ::recv / ::close call returns, and decides which datagram (if any) is   *)
(* delivered to a ::recv.  Every system call an operation makes is         *)
(* recorded, in order, in lastOp.trace.                                    *)
(***************************************************************************)
EXTENDS Integers, Sequences, FiniteSets, TLC

(***************************************************************************)
(* Bounds of the model.                                                    *)
(***************************************************************************)
\* Number of Controller objects (storage slots) the program uses.
NumHandles == 2
\* Number of descriptors the process may hold open; ::socket fails beyond it.
MaxOpen == 2
\* Longest datagram the peer may deliver to a ::recv.
MaxDgramLen == 9

(***************************************************************************)
(* Program constants.                                                      *)
(***************************************************************************)
invalid_socket == -1
magic_value == 1279607890       \* 0x4C454452, "LEDR"
protocol_version == 0
NONE == 0
PING == 1
UPDATE == 2
\* sizeof(RootHeader), static_assert in the constructor
RootHeaderSize == 8

Handles == 1..NumHandles
Fds == 0..(MaxOpen - 1)

\* (r, g, b) triples update() is called with (0x0102 = 258, 0xFF00 = 65280).
ChannelTriples == {<<0, 65535, 1>>, <<258, 65280, 3>>}
\* Address families the constructor is called with.
Families == {"AF_INET", "AF_INET6", "AF_UNIX"}
\* Timeouts (ms) the constructor is called with.
Timeouts == {0, 1500}

\* errno values the operating system may report, by call.
SocketErrnos == {"EMFILE"}
ConnectErrnos == {"ENETUNREACH"}
SetsockoptErrnos == {"ENOBUFS"}
SendErrnos == {"ECONNREFUSED", "EAGAIN"}
RecvErrnos == {"ETIMEDOUT", "EWOULDBLOCK", "EAGAIN", "ECONNREFUSED"}

VARIABLES
    bigEndian,  \* byte order of the host the library is built for
    alive,      \* alive[h]: a Controller object exists in slot h
    fd_,        \* fd_[h]: Controller::fd_ of the object in slot h
    open,       \* descriptors the operating system holds open
    lastOp,     \* the last operation: arguments, system calls made, outcome
    net         \* a ping() in progress, the socket's receive queue and the peer

vars == <<bigEndian, alive, fd_, open, lastOp, net>>

(***************************************************************************)
(* Byte order: htonl / htons / ntohl / ntohs, and the object               *)
(* representation of integers that TO_IOV / TO_CIOV expose.                *)
(***************************************************************************)
Pow256(i) == IF i = 0 THEN 1 ELSE IF i = 1 THEN 256 ELSE IF i = 2 THEN 65536 ELSE 16777216

ByteOf(x, i) == (x \div Pow256(i)) % 256

bswap16(x) == ByteOf(x, 0) * 256 + ByteOf(x, 1)

bswap32(x) ==
    ByteOf(x, 0) * 16777216 + ByteOf(x, 1) * 65536 + ByteOf(x, 2) * 256 + ByteOf(x, 3)

\* htons left out: the value is stored as it is.
SERIALIZE_U16_identity(u16_he) == u16_he

SERIALIZE_U16(u16_he) == IF bigEndian THEN u16_he ELSE bswap16(u16_he)

DESERIALIZE_U16(u16_ne) == IF bigEndian THEN u16_ne ELSE bswap16(u16_ne)

SERIALIZE_U32(u32_he) == IF bigEndian THEN u32_he ELSE bswap32(u32_he)

DESERIALIZE_U32(u32_ne) == IF bigEndian THEN u32_ne ELSE bswap32(u32_ne)

SERIALIZE_ACTION(action) == action % 256

\* Object representation (bytes in memory, lowest address first) of a u16 / u32.
Store16(x) ==
    IF bigEndian THEN <<ByteOf(x, 1), ByteOf(x, 0)>> ELSE <<ByteOf(x, 0), ByteOf(x, 1)>>

Store32(x) ==
    IF bigEndian THEN <<ByteOf(x, 3), ByteOf(x, 2), ByteOf(x, 1), ByteOf(x, 0)>>
    ELSE <<ByteOf(x, 0), ByteOf(x, 1), ByteOf(x, 2), ByteOf(x, 3)>>

Load16(bs) == IF bigEndian THEN bs[1] * 256 + bs[2] ELSE bs[2] * 256 + bs[1]

Load32(bs) ==
    IF bigEndian THEN bs[1] * 16777216 + bs[2] * 65536 + bs[3] * 256 + bs[4]
    ELSE bs[4] * 16777216 + bs[3] * 65536 + bs[2] * 256 + bs[1]

\* struct RootHeader { u32 magic; u8 version; u8 action; u16 flags; }
RootHeader(magic, version, action, flags) ==
    [magic |-> magic, version |-> version, action |-> action, flags |-> flags]

\* TO_CIOV(header): the 8 bytes of a RootHeader object.
HeaderBytes(hdr) ==
    Store32(hdr.magic) \o <<hdr.version, hdr.action>> \o Store16(hdr.flags)

\* TO_IOV(header) filled by ::recv: the RootHeader whose object bytes are bs.
HeaderFromBytes(bs) ==
    RootHeader(Load32(SubSeq(bs, 1, 4)), bs[5], bs[6], Load16(SubSeq(bs, 7, 8)))

\* TO_CIOV(values) for const u16 values[3].
ValuesBytes(values) == Store16(values[1]) \o Store16(values[2]) \o Store16(values[3])

\* The payload of an UPDATE frame read back: the six bytes stored into a
\* u16[3] and each value passed through DESERIALIZE_U16.
DeserializeValues(bs) ==
    <<DESERIALIZE_U16(Load16(SubSeq(bs, 1, 2))), DESERIALIZE_U16(Load16(SubSeq(bs, 3, 4))),
      DESERIALIZE_U16(Load16(SubSeq(bs, 5, 6)))>>

(***************************************************************************)
(* Outcomes of an operation and records of system calls.                   *)
(***************************************************************************)
\* throw std::system_error(code, category)
Throw(code, category) == [kind |-> "throw", n |-> 0, code |-> code, category |-> category]

ReturnVoid == [kind |-> "void", n |-> 0, code |-> "", category |-> ""]

ReturnBool(b) ==
    [kind |-> IF b THEN "true" ELSE "false", n |-> 0, code |-> "", category |-> ""]

ReturnSize(n) == [kind |-> "size", n |-> n, code |-> "", category |-> ""]

\* One system call: its name, descriptor argument, the bytes handed over
\* (sendmsg) or delivered (recv), its return value and the errno it set.
Sys(call, fd, data, ret, err) ==
    [call |-> call, fd |-> fd, data |-> data, ret |-> ret, err |-> err]

\* What the operating system answers to a call: ret < 0 with an errno, or ret >= 0.
OsFail(err) == [ret |-> -1, err |-> err, dgram |-> <<>>]

OsOk(n) == [ret |-> n, err |-> "", dgram |-> <<>>]

OsDgram(bs) == [ret |-> Len(bs), err |-> "", dgram |-> bs]

Min(a, b) == IF a < b THEN a ELSE b

RECURSIVE Flatten(_)
\* The bytes of a segment list, in order (what the gather send transmits).
Flatten(data) == IF data = <<>> THEN <<>> ELSE Head(data) \o Flatten(Tail(data))

(***************************************************************************)
(* Controller's member functions, as functions of the stored descriptor    *)
(* and of what the operating system answers.                               *)
(***************************************************************************)
is_valid(f) == f # invalid_socket

\* close() without its guard: ::close is called whatever fd_ holds.
close_unguarded(f, co) ==
    [fd |-> invalid_socket, trace |-> <<Sys("close", f, <<>>, co.ret, co.err)>>]

\* Controller::close(): the new fd_ and the system calls made.
close(f, co) ==
    IF f = invalid_socket
    THEN [fd |-> f, trace |-> <<>>]
    ELSE [fd |-> invalid_socket, trace |-> <<Sys("close", f, <<>>, co.ret, co.err)>>]

\* send_ checking its argument before the handle.
send_args_first(f, data, so) ==
    IF data = <<>> THEN [result |-> Throw("EINVAL", "generic"), trace |-> <<>>]
    ELSE IF ~is_valid(f) THEN [result |-> Throw("ENOTCONN", "generic"), trace |-> <<>>]
    ELSE LET to_send == Len(Flatten(data))
             call == Sys("sendmsg", f, Flatten(data), so.ret, so.err)
         IN  IF to_send = 0 THEN [result |-> Throw("EINVAL", "generic"), trace |-> <<>>]
             ELSE IF so.ret < 0 THEN [result |-> Throw(so.err, "system"), trace |-> <<call>>]
             ELSE IF so.ret # to_send THEN [result |-> Throw("EIO", "generic"), trace |-> <<call>>]
             ELSE [result |-> ReturnVoid, trace |-> <<call>>]

\* send_ without the to_send == 0 check.
send_no_zero_check(f, data, so) ==
    IF ~is_valid(f) THEN [result |-> Throw("ENOTCONN", "generic"), trace |-> <<>>]
    ELSE IF data = <<>> THEN [result |-> Throw("EINVAL", "generic"), trace |-> <<>>]
    ELSE LET to_send == Len(Flatten(data))
             call == Sys("sendmsg", f, Flatten(data), so.ret, so.err)
         IN  IF so.ret < 0 THEN [result |-> Throw(so.err, "system"), trace |-> <<call>>]
             ELSE IF so.ret # to_send THEN [result |-> Throw("EIO", "generic"), trace |-> <<call>>]
             ELSE [result |-> ReturnVoid, trace |-> <<call>>]

\* send_ that sends the rest of the frame after a partial send.
send_retry_rest(f, data, so) ==
    IF ~is_valid(f) THEN [result |-> Throw("ENOTCONN", "generic"), trace |-> <<>>]
    ELSE IF data = <<>> THEN [result |-> Throw("EINVAL", "generic"), trace |-> <<>>]
    ELSE LET to_send == Len(Flatten(data))
             call == Sys("sendmsg", f, Flatten(data), so.ret, so.err)
             rest == SubSeq(Flatten(data), so.ret + 1, to_send)
             again == Sys("sendmsg", f, rest, Len(rest), "")
         IN  IF to_send = 0 THEN [result |-> Throw("EINVAL", "generic"), trace |-> <<>>]
             ELSE IF so.ret < 0 THEN [result |-> Throw(so.err, "system"), trace |-> <<call>>]
             ELSE IF so.ret # to_send THEN [result |-> ReturnVoid, trace |-> <<call, again>>]
             ELSE [result |-> ReturnVoid, trace |-> <<call>>]

\* Controller::send_(data), POSIX branch; so is the answer of ::sendmsg.
\* (segment.size() > max(iov_len) cannot hold: both are size_t.)
send_(f, data, so) ==
    IF ~is_valid(f) THEN [result |-> Throw("ENOTCONN", "generic"), trace |-> <<>>]
    ELSE IF data = <<>> THEN [result |-> Throw("EINVAL", "generic"), trace |-> <<>>]
    ELSE LET to_send == Len(Flatten(data))
             call == Sys("sendmsg", f, Flatten(data), so.ret, so.err)
         IN  IF to_send = 0 THEN [result |-> Throw("EINVAL", "generic"), trace |-> <<>>]
             ELSE IF so.ret < 0 THEN [result |-> Throw(so.err, "system"), trace |-> <<call>>]
             ELSE IF so.ret # to_send THEN [result |-> Throw("EIO", "generic"), trace |-> <<call>>]
             ELSE [result |-> ReturnVoid, trace |-> <<call>>]

\* Controller::recv_(data) for a buffer of `size` bytes, POSIX branch; ro is the
\* answer of ::recv: an errno, or the datagram delivered (cut to the buffer).
recv_(f, size, ro) ==
    IF ~is_valid(f) THEN [result |-> Throw("ENOTCONN", "generic"), trace |-> <<>>, buf |-> <<>>]
    ELSE IF size = 0 THEN [result |-> Throw("EINVAL", "generic"), trace |-> <<>>, buf |-> <<>>]
    ELSE IF ro.ret < 0
         THEN [result |-> Throw(ro.err, "system"), buf |-> <<>>,
               trace |-> <<Sys("recv", f, <<>>, -1, ro.err)>>]
         ELSE LET got == Min(Len(ro.dgram), size)
                  bytes == SubSeq(ro.dgram, 1, got)
              IN  [result |-> ReturnSize(got), buf |-> bytes,
                   trace |-> <<Sys("recv", f, bytes, got, "")>>]

\* The catch block without the EAGAIN case.
IsTimeoutCode_no_eagain(code) == code \in {"ETIMEDOUT", "EWOULDBLOCK"}

\* The catch block also taking EIO for a timeout.
IsTimeoutCode_with_eio(code) == code \in {"ETIMEDOUT", "EWOULDBLOCK", "EAGAIN", "EIO"}

\* The codes ping()'s catch block turns into `return false` (POSIX branch).
IsTimeoutCode(code) == code \in {"ETIMEDOUT", "EWOULDBLOCK", "EAGAIN"}

\* The header ping() builds.
PingHeader == RootHeader(SERIALIZE_U32(magic_value), protocol_version, SERIALIZE_ACTION(PING), 0)

\* The header update() builds.
UpdateHeader == RootHeader(SERIALIZE_U32(magic_value), protocol_version, SERIALIZE_ACTION(UPDATE), 0)

\* The comparison leaving out the flags field.
SameHeader_no_flags(a, b) ==
    a.magic = b.magic /\ a.version = b.version /\ a.action = b.action

\* The comparison at the end of ping().
SameHeader(a, b) ==
    a.magic = b.magic /\ a.version = b.version /\ a.action = b.action /\ a.flags = b.flags

\* What ping() does with the outcome r of recv_ inside its try block.
pingReceive(r) ==
    LET inTry == IF r.result.kind = "size" /\ r.result.n # RootHeaderSize
                 THEN Throw("EIO", "generic") ELSE r.result
    IN  IF inTry.kind = "throw"
        THEN IF IsTimeoutCode(inTry.code) THEN ReturnBool(FALSE) ELSE inTry
        ELSE ReturnBool(SameHeader(PingHeader, HeaderFromBytes(r.buf)))

\* ping() with send_ moved inside the try block.
ping_send_in_try(f, so, ro) ==
    IF ~is_valid(f) THEN [result |-> Throw("ENOTCONN", "generic"), trace |-> <<>>]
    ELSE LET s == send_(f, <<HeaderBytes(PingHeader)>>, so)
             r == recv_(f, RootHeaderSize, ro)
         IN  IF s.result.kind = "throw"
             THEN [result |-> IF IsTimeoutCode(s.result.code) THEN ReturnBool(FALSE)
                              ELSE s.result,
                   trace |-> s.trace]
             ELSE [result |-> pingReceive(r), trace |-> s.trace \o r.trace]

\* ping() going on to receive whatever send_ did.
ping_ignore_send(f, so, ro) ==
    IF ~is_valid(f) THEN [result |-> Throw("ENOTCONN", "generic"), trace |-> <<>>]
    ELSE LET s == send_(f, <<HeaderBytes(PingHeader)>>, so)
             r == recv_(f, RootHeaderSize, ro)
         IN  [result |-> pingReceive(r), trace |-> s.trace \o r.trace]

\* Controller::ping().
ping(f, so, ro) ==
    IF ~is_valid(f) THEN [result |-> Throw("ENOTCONN", "generic"), trace |-> <<>>]
    ELSE LET s == send_(f, <<HeaderBytes(PingHeader)>>, so)
             r == recv_(f, RootHeaderSize, ro)
         IN  IF s.result.kind = "throw" THEN s
             ELSE [result |-> pingReceive(r), trace |-> s.trace \o r.trace]

\* update() handing the channel values over in host byte order.
update_host_order(f, r, g, b, so) ==
    IF ~is_valid(f) THEN [result |-> Throw("ENOTCONN", "generic"), trace |-> <<>>]
    ELSE send_(f, <<HeaderBytes(UpdateHeader), ValuesBytes(<<r, g, b>>)>>, so)

\* Controller::update(r, g, b).
update(f, r, g, b, so) ==
    IF ~is_valid(f) THEN [result |-> Throw("ENOTCONN", "generic"), trace |-> <<>>]
    ELSE LET values == <<SERIALIZE_U16(r), SERIALIZE_U16(g), SERIALIZE_U16(b)>>
         IN  send_(f, <<HeaderBytes(UpdateHeader), ValuesBytes(values)>>, so)

(***************************************************************************)
(* Construction.                                                           *)
(***************************************************************************)
\* errno after a system call that answered `out`, when it held `before`.
ErrnoAfter(before, out) == IF out.ret < 0 THEN out.err ELSE before

\* The timeval filled with whole seconds only.
TimeoutTv_whole_seconds(timeout_ms) ==
    IF timeout_ms > 0 THEN <<timeout_ms \div 1000, 0>> ELSE <<0, 0>>

\* The timeval the constructor passes to setsockopt(SO_RCVTIMEO), POSIX branch.
TimeoutTv(timeout_ms) ==
    IF timeout_ms > 0 THEN <<timeout_ms \div 1000, (timeout_ms % 1000) * 1000>> ELSE <<0, 0>>

\* The constructor throwing on a failed ::connect without close() first.
Controller_no_close_on_connect(family, timeout_ms, sk, cn, op, co) ==
    LET sockCall == Sys("socket", invalid_socket, <<>>, sk.ret, sk.err)
        connCall == Sys("connect", sk.ret, <<>>, cn.ret, cn.err)
        optCall == Sys("setsockopt", sk.ret, TimeoutTv(timeout_ms), op.ret, op.err)
        cl == close(sk.ret, co)
    IN  IF family \notin {"AF_INET", "AF_INET6"}
        THEN [result |-> Throw("EINVAL", "generic"), fd |-> invalid_socket,
              trace |-> <<>>]
        ELSE IF sk.ret = invalid_socket
        THEN [result |-> Throw(sk.err, "system"), fd |-> invalid_socket,
              trace |-> <<sockCall>>]
        ELSE IF cn.ret # 0
        THEN [result |-> Throw(cn.err, "system"), fd |-> sk.ret,
              trace |-> <<sockCall, connCall>>]
        ELSE IF op.ret # 0
        THEN [result |-> Throw(ErrnoAfter(op.err, co), "system"), fd |-> cl.fd,
              trace |-> <<sockCall, connCall, optCall>> \o cl.trace]
        ELSE [result |-> ReturnVoid, fd |-> sk.ret,
              trace |-> <<sockCall, connCall, optCall>>]

\* Controller::Controller(addr, timeout): the outcome, the fd_ of the object
\* (when it comes to exist) and the system calls made; the setsockopt call
\* carries the timeval <<tv_sec, tv_usec>> it is given.
\* sk, cn, op, co are the answers of ::socket, ::connect, ::setsockopt, ::close.
Controller(family, timeout_ms, sk, cn, op, co) ==
    LET sockCall == Sys("socket", invalid_socket, <<>>, sk.ret, sk.err)
        connCall == Sys("connect", sk.ret, <<>>, cn.ret, cn.err)
        optCall == Sys("setsockopt", sk.ret, TimeoutTv(timeout_ms), op.ret, op.err)
        cl == close(sk.ret, co)
    IN  IF family \notin {"AF_INET", "AF_INET6"}
        THEN [result |-> Throw("EINVAL", "generic"), fd |-> invalid_socket,
              trace |-> <<>>]
        ELSE IF sk.ret = invalid_socket
        THEN [result |-> Throw(sk.err, "system"), fd |-> invalid_socket,
              trace |-> <<sockCall>>]
        ELSE IF cn.ret # 0
        THEN [result |-> Throw(ErrnoAfter(cn.err, co), "system"), fd |-> cl.fd,
              trace |-> <<sockCall, connCall>> \o cl.trace]
        ELSE IF op.ret # 0
        THEN [result |-> Throw(ErrnoAfter(op.err, co), "system"), fd |-> cl.fd,
              trace |-> <<sockCall, connCall, optCall>> \o cl.trace]
        ELSE [result |-> ReturnVoid, fd |-> sk.ret,
              trace |-> <<sockCall, connCall, optCall>>]

(***************************************************************************)
(* The environment's answers.                                              *)
(***************************************************************************)
\* ::socket returns the lowest free descriptor, or fails.
SocketOutcomes ==
    {OsFail(e) : e \in SocketErrnos} \cup
    (IF Fds \ open = {} THEN {}
     ELSE {OsOk(CHOOSE d \in Fds \ open : \A e \in Fds \ open : d <= e)})

ConnectOutcomes == {OsOk(0)} \cup {OsFail(e) : e \in ConnectErrnos}

SetsockoptOutcomes == {OsOk(0)} \cup {OsFail(e) : e \in SetsockoptErrnos}

\* ::close releases the descriptor; it may still report an error.
CloseOutcomes == {OsOk(0), OsFail("EINTR")}

\* ::sendmsg of `total` bytes: an error, or a count of bytes sent.
SendOutcomes(total) ==
    {OsFail(e) : e \in SendErrnos} \cup
    {OsOk(n) : n \in {0, total - 1, total} \cap (0..total)}

Zeros(n) == [i \in 1..n |-> 0]

\* The bytes of the PING frame, as the peer echoes them.
PingBytes == HeaderBytes(PingHeader)

\* bs with byte i changed.
Alter(bs, i) == [bs EXCEPT ![i] = (@ + 1) % 256]

\* Lengths of the datagrams the peer may answer with.
DgramLens == {0, RootHeaderSize - 1, RootHeaderSize} \cup (RootHeaderSize + 1..MaxDgramLen)

\* Datagrams the peer may answer with: the echo cut or extended to the lengths
\* above, and the echo with any single byte changed.
Datagrams ==
    {SubSeq(PingBytes \o Zeros(MaxDgramLen), 1, n) : n \in DgramLens} \cup
    {Alter(PingBytes, i) : i \in 1..RootHeaderSize}

\* ::recv: an error, or a datagram.
RecvOutcomes == {OsFail(e) : e \in RecvErrnos} \cup {OsDgram(bs) : bs \in Datagrams}

\* The answers to enumerate for a system call: all of them when the operation
\* reaches the call, one (which is then never read) when it does not.
IfReached(reached, outcomes) == IF reached THEN outcomes ELSE {OsOk(0)}

\* The answers ping() can meet on descriptor f: ::recv is called only after
\* ::sendmsg reported the whole frame sent.
PingInputs(f) ==
    {[so |-> so, ro |-> ro] :
        so \in IfReached(is_valid(f), SendOutcomes(RootHeaderSize) \ {OsOk(RootHeaderSize)}),
        ro \in {OsOk(0)}} \cup
    {[so |-> so, ro |-> ro] :
        so \in {OsOk(RootHeaderSize)}, ro \in IfReached(is_valid(f), RecvOutcomes)}

\* The arguments of a construction and the answers it can meet: each call is
\* made only when the calls before it succeeded, ::close only after a failure.
ConstructInputs ==
    LET In(family, timeout_ms, sk, cn, op, co) ==
            [family |-> family, timeout_ms |-> timeout_ms, sk |-> sk, cn |-> cn,
             op |-> op, co |-> co]
        good == {"AF_INET", "AF_INET6"}
        skOk == {sk \in SocketOutcomes : sk.ret >= 0}
    IN  {In(f, t, OsOk(0), OsOk(0), OsOk(0), OsOk(0)) : f \in Families \ good, t \in Timeouts}
        \cup {In(f, t, sk, OsOk(0), OsOk(0), OsOk(0)) :
                 f \in good, t \in Timeouts, sk \in SocketOutcomes \ skOk}
        \cup {In(f, t, sk, cn, OsOk(0), co) :
                 f \in good, t \in Timeouts, sk \in skOk,
                 cn \in ConnectOutcomes \ {OsOk(0)}, co \in CloseOutcomes}
        \cup {In(f, t, sk, OsOk(0), op, co) :
                 f \in good, t \in Timeouts, sk \in skOk,
                 op \in SetsockoptOutcomes \ {OsOk(0)}, co \in CloseOutcomes}
        \cup {In(f, t, sk, OsOk(0), OsOk(0), OsOk(0)) :
                 f \in good, t \in Timeouts, sk \in skOk}

\* Segment lists the send primitive is given.
SegmentLists == {<<>>, <<<<>>, <<>>>>, <<<<7>>, <<>>, <<9, 11>>>>}

\* Buffer sizes the receive primitive is given, and the answers of ::recv then:
\* an error, a datagram shorter than the buffer, a longer one.
BufferSizes == {0, 4}

DirectRecvOutcomes ==
    {OsFail("ECONNREFUSED"), OsDgram(SubSeq(PingBytes, 1, 2)), OsDgram(PingBytes)}

(***************************************************************************)
(* State machine.                                                          *)
(***************************************************************************)
\* The move constructor copying the descriptor without clearing the source.
move_construct_copy(srcFd) == [dst |-> srcFd, src |-> srcFd]

\* Controller::Controller(Controller&& other): fd_(std::exchange(other.fd_, invalid_socket))
move_construct(srcFd) == [dst |-> srcFd, src |-> invalid_socket]

\* Move assignment written as a swap of the two descriptors.
move_assign_swap(same, dstFd, srcFd, co) == [dst |-> srcFd, src |-> dstFd, trace |-> <<>>]

\* Move assignment taking the source's descriptor without close() first.
move_assign_no_close(same, dstFd, srcFd, co) ==
    IF same THEN [dst |-> dstFd, src |-> srcFd, trace |-> <<>>]
    ELSE [dst |-> srcFd, src |-> invalid_socket, trace |-> <<>>]

\* Controller::operator=(Controller&& other); `same` is this == &other.
move_assign(same, dstFd, srcFd, co) ==
    IF same THEN [dst |-> dstFd, src |-> srcFd, trace |-> <<>>]
    ELSE [dst |-> srcFd, src |-> invalid_socket, trace |-> close(dstFd, co).trace]

\* Descriptors a sequence of system calls opened / released.
Made(trace) ==
    {trace[i].ret : i \in {j \in 1..Len(trace) : trace[j].call = "socket" /\ trace[j].ret >= 0}}

Shut(trace) == {trace[i].fd : i \in {j \in 1..Len(trace) : trace[j].call = "close"}}

\* No ping() in progress, nothing queued at the socket, nothing on its way to
\* a peer of the given kind.
NoDatagram == [bytes |-> <<>>, req |-> 0]

NoTraffic(peer) ==
    [phase |-> "idle", timeout_ms |-> 0, tv |-> <<0, 0>>, peer |-> peer, seq |-> 0,
     wire |-> {}, rxq |-> <<>>, got |-> NoDatagram]

Op(op, h, src, args, res) ==
    [op |-> op, h |-> h, src |-> src, args |-> args, pre |-> fd_,
     trace |-> res.trace, result |-> res.result]

Init ==
    /\ bigEndian \in BOOLEAN
    /\ alive = [h \in Handles |-> FALSE]
    /\ fd_ = [h \in Handles |-> invalid_socket]
    /\ open = {}
    /\ net = NoTraffic("silent")
    /\ lastOp = [op |-> "init", h |-> 0, src |-> 0, args |-> <<>>, pre |-> fd_,
                 trace |-> <<>>, result |-> ReturnVoid]

\* Controller c;  (default constructor: fd_{invalid_socket})
DefaultConstruct(h) ==
    /\ ~alive[h]
    /\ alive' = [alive EXCEPT ![h] = TRUE]
    /\ fd_' = [fd_ EXCEPT ![h] = invalid_socket]
    /\ lastOp' = Op("default_construct", h, 0, <<>>, [trace |-> <<>>, result |-> ReturnVoid])
    /\ UNCHANGED <<net, bigEndian, open>>

\* Controller c(addr, timeout);  when it throws, no object comes to exist.
Construct(h) ==
    /\ ~alive[h]
    /\ \E in \in ConstructInputs :
          LET c == Controller(in.family, in.timeout_ms, in.sk, in.cn, in.op, in.co)
              family == in.family
              timeout_ms == in.timeout_ms
              ok == c.result.kind # "throw"
          IN  /\ alive' = [alive EXCEPT ![h] = ok]
              /\ fd_' = [fd_ EXCEPT ![h] = IF ok THEN c.fd ELSE invalid_socket]
              /\ open' = (open \cup Made(c.trace)) \ Shut(c.trace)
              /\ lastOp' = Op("construct", h, 0, <<family, timeout_ms>>, c)
    /\ UNCHANGED <<net, bigEndian>>

\* Controller dst(std::move(src));
MoveConstruct(dst, src) ==
    /\ ~alive[dst] /\ alive[src] /\ dst # src
    /\ LET m == move_construct(fd_[src])
       IN  /\ fd_' = [fd_ EXCEPT ![dst] = m.dst, ![src] = m.src]
           /\ lastOp' = Op("move_construct", dst, src, <<>>,
                           [trace |-> <<>>, result |-> ReturnVoid])
    /\ alive' = [alive EXCEPT ![dst] = TRUE]
    /\ UNCHANGED <<net, bigEndian, open>>

\* dst = std::move(src);  (src may be dst itself)
MoveAssign(dst, src) ==
    /\ alive[dst] /\ alive[src]
    /\ \E co \in CloseOutcomes :
          LET m == move_assign(dst = src, fd_[dst], fd_[src], co)
          IN  /\ fd_' = [h \in Handles |-> IF h = dst THEN m.dst
                                           ELSE IF h = src THEN m.src ELSE fd_[h]]
              /\ open' = open \ Shut(m.trace)
              /\ lastOp' = Op("move_assign", dst, src, <<>>,
                              [trace |-> m.trace, result |-> ReturnVoid])
    /\ UNCHANGED <<net, bigEndian, alive>>

\* h.close();
Close(h) ==
    /\ alive[h]
    /\ \E co \in CloseOutcomes :
          LET c == close(fd_[h], co)
          IN  /\ fd_' = [fd_ EXCEPT ![h] = c.fd]
              /\ open' = open \ Shut(c.trace)
              /\ lastOp' = Op("close", h, 0, <<>>, [trace |-> c.trace, result |-> ReturnVoid])
    /\ UNCHANGED <<net, bigEndian, alive>>

\* Controller::~Controller(): close(), and the object is gone.
Destroy(h) ==
    /\ alive[h]
    /\ \E co \in CloseOutcomes :
          LET c == close(fd_[h], co)
          IN  /\ fd_' = [fd_ EXCEPT ![h] = c.fd]
              /\ open' = open \ Shut(c.trace)
              /\ lastOp' = Op("destroy", h, 0, <<>>, [trace |-> c.trace, result |-> ReturnVoid])
    /\ alive' = [alive EXCEPT ![h] = FALSE]
    /\ UNCHANGED <<net, bigEndian>>

\* h.is_valid();
IsValid(h) ==
    /\ alive[h]
    /\ lastOp' = Op("is_valid", h, 0, <<>>,
                    [trace |-> <<>>, result |-> ReturnBool(is_valid(fd_[h]))])
    /\ UNCHANGED <<net, bigEndian, alive, fd_, open>>

\* ping() giving up its socket when it ends with an exception.
Ping_closes_on_error(h) ==
    /\ alive[h]
    /\ \E in \in PingInputs(fd_[h]) :
          LET p == ping(fd_[h], in.so, in.ro)
              c == close(fd_[h], OsOk(0))
          IN  /\ lastOp' = Op("ping", h, 0, <<>>, p)
              /\ fd_' = [fd_ EXCEPT ![h] = IF p.result.kind = "throw" THEN c.fd ELSE @]
              /\ open' = IF p.result.kind = "throw" THEN open \ Shut(c.trace) ELSE open
    /\ UNCHANGED <<net, bigEndian, alive>>

\* h.ping();
Ping(h) ==
    /\ alive[h]
    /\ \E in \in PingInputs(fd_[h]) :
          lastOp' = Op("ping", h, 0, <<>>, ping(fd_[h], in.so, in.ro))
    /\ UNCHANGED <<net, bigEndian, alive, fd_, open>>

\* h.update(r, g, b);
Update(h) ==
    /\ alive[h]
    /\ \E rgb \in ChannelTriples, so \in IfReached(is_valid(fd_[h]), SendOutcomes(RootHeaderSize + 6)) :
          lastOp' = Op("update", h, 0, rgb, update(fd_[h], rgb[1], rgb[2], rgb[3], so))
    /\ UNCHANGED <<net, bigEndian, alive, fd_, open>>

\* The send primitive on its own: h.send_(data).
Send(h) ==
    /\ alive[h]
    /\ \E data \in SegmentLists :
          \E so \in IfReached(is_valid(fd_[h]) /\ Len(Flatten(data)) > 0,
                               SendOutcomes(Len(Flatten(data)))) :
             lastOp' = Op("send", h, 0, data, send_(fd_[h], data, so))
    /\ UNCHANGED <<net, bigEndian, alive, fd_, open>>

\* The receive primitive on its own: h.recv_(buffer of `size` bytes).
Recv(h) ==
    /\ alive[h]
    /\ \E size \in BufferSizes :
       \E ro \in IfReached(is_valid(fd_[h]) /\ size > 0, DirectRecvOutcomes) :
          LET r == recv_(fd_[h], size, ro)
          IN  lastOp' = Op("recv", h, 0, <<size>>, [trace |-> r.trace, result |-> r.result])
    /\ UNCHANGED <<net, bigEndian, alive, fd_, open>>

Next ==
    \/ \E h \in Handles : DefaultConstruct(h)
    \/ \E h \in Handles : Construct(h)
    \/ \E d \in Handles, s \in Handles : MoveConstruct(d, s)
    \/ \E d \in Handles, s \in Handles : MoveAssign(d, s)
    \/ \E h \in Handles : Close(h)
    \/ \E h \in Handles : Destroy(h)
    \/ \E h \in Handles : Ping(h)
    \/ \E h \in Handles : Update(h)
    \/ \E h \in Handles : Send(h)
    \/ \E h \in Handles : Recv(h)
    \/ \E h \in Handles : IsValid(h)

Spec == Init /\ [][Next]_vars

(***************************************************************************)
(* The conversions on their own: one construction with a given timeout and *)
(* one update with given channel values, every system call succeeding.     *)
(***************************************************************************)
\* Timeouts in milliseconds around zero, around a whole second, and at the
\* ends of the range.
TimeoutInputs ==
    {-2147483647, -1500, -1000, -1, 0, 1, 2, 999, 1000, 1001, 1500, 1999, 59999,
     60000, 2147482999, 2147483000, 2147483647}

\* Channel values: every pairing of a low and a high byte taken from the ends
\* and the middle of the byte range.
EdgeBytes == {0, 1, 2, 127, 128, 129, 254, 255}

ChannelInputs == {hi * 256 + lo : hi \in EdgeBytes, lo \in EdgeBytes}

TripleInputs ==
    {<<x, 65535 - x, (7 * x + 258) % 65536>> : x \in ChannelInputs}
    \cup {<<r, g, b>> : r \in {0, 255, 65535}, g \in {1, 256}, b \in {0, 65280}}

\* (family, timeout_ms, R, G, B); 1000 ms is the constructor's default timeout.
Inputs ==
    {<<"AF_INET", t, 0, 65535, 1>> : t \in TimeoutInputs}
    \cup {<<"AF_INET6", 1000, v[1], v[2], v[3]>> : v \in TripleInputs}

InitInputs ==
    /\ bigEndian \in BOOLEAN
    /\ alive = [h \in Handles |-> FALSE]
    /\ fd_ = [h \in Handles |-> invalid_socket]
    /\ open = {}
    /\ net = NoTraffic("silent")
    /\ \E in \in Inputs :
          lastOp = [op |-> "input", h |-> 1, src |-> 0, args |-> in, pre |-> fd_,
                    trace |-> <<>>, result |-> ReturnVoid]

\* Controller ctl(addr, timeout);  with the given timeout.
ConstructInput(h) ==
    /\ lastOp.op = "input" /\ lastOp.h = h /\ ~alive[h]
    /\ \E sk \in {s \in SocketOutcomes : s.ret >= 0} :
          LET c == Controller(lastOp.args[1], lastOp.args[2], sk, OsOk(0), OsOk(0), OsOk(0))
          IN  /\ alive' = [alive EXCEPT ![h] = TRUE]
              /\ fd_' = [fd_ EXCEPT ![h] = c.fd]
              /\ open' = (open \cup Made(c.trace)) \ Shut(c.trace)
              /\ lastOp' = Op("construct", h, 0, lastOp.args, c)
    /\ UNCHANGED <<net, bigEndian>>

\* ctl.update(R, G, B);  with the given values.
UpdateInput(h) ==
    /\ lastOp.op = "construct" /\ lastOp.h = h /\ alive[h]
    /\ LET rgb == SubSeq(lastOp.args, 3, 5)
       IN  lastOp' = Op("update", h, 0, rgb,
                        update(fd_[h], rgb[1], rgb[2], rgb[3], OsOk(RootHeaderSize + 6)))
    /\ UNCHANGED <<net, bigEndian, alive, fd_, open>>

NextInputs ==
    \/ \E h \in Handles : ConstructInput(h)
    \/ \E h \in Handles : UpdateInput(h)

SpecInputs == InitInputs /\ [][NextInputs]_vars

(***************************************************************************)
(* ping() followed through its blocking ::recv: the call sends its frame   *)
(* and blocks; the peer may answer each frame it was sent, at any later    *)
(* time; ::recv returns with the datagram at the head of the socket's      *)
(* queue, or, with the queue empty and SO_RCVTIMEO set, with a timeout.    *)
(***************************************************************************)
\* ping() calls made on the handle in these runs.
MaxPings == 2

\* Timeouts the handle is constructed with: none (negative, zero), 1.5 s.
LiveTimeouts == {-1, 0, 1500}

\* How the peer behaves: it never answers, or it may answer each frame once.
Peers == {"silent", "echo"}

\* The outcome of a ping() that has not returned yet.
Blocked == [kind |-> "blocked", n |-> 0, code |-> "", category |-> ""]

\* What the peer answers to a PING frame: the frame, or the frame one byte
\* short, or the frame followed by further bytes.
Answers ==
    {SubSeq(PingBytes \o Zeros(MaxDgramLen), 1, n) : n \in (RootHeaderSize - 1)..MaxDgramLen}

\* The errno of a ::recv that gave up after SO_RCVTIMEO.
RecvTimeoutErrnos == {"EAGAIN", "EWOULDBLOCK", "ETIMEDOUT"}

InitLive ==
    /\ bigEndian \in BOOLEAN
    /\ alive = [h \in Handles |-> FALSE]
    /\ fd_ = [h \in Handles |-> invalid_socket]
    /\ open = {}
    /\ lastOp = [op |-> "init", h |-> 0, src |-> 0, args |-> <<>>, pre |-> fd_,
                 trace |-> <<>>, result |-> ReturnVoid]
    /\ \E p \in Peers : net = NoTraffic(p)

\* Controller c(addr, timeout);  every call succeeding: the socket now has
\* the receive timeout the constructor passed to setsockopt.
Connect(h) ==
    /\ \A k \in Handles : ~alive[k]
    /\ \E family \in {"AF_INET"}, timeout_ms \in LiveTimeouts,
          sk \in {s \in SocketOutcomes : s.ret >= 0} :
          LET c == Controller(family, timeout_ms, sk, OsOk(0), OsOk(0), OsOk(0))
          IN  /\ alive' = [alive EXCEPT ![h] = TRUE]
              /\ fd_' = [fd_ EXCEPT ![h] = c.fd]
              /\ open' = (open \cup Made(c.trace)) \ Shut(c.trace)
              /\ lastOp' = Op("construct", h, 0, <<family, timeout_ms>>, c)
              /\ net' = [net EXCEPT !.timeout_ms = timeout_ms,
                                    !.tv = c.trace[Len(c.trace)].data]
    /\ UNCHANGED bigEndian

\* h.ping() up to its ::recv: when send_ throws the call is over; when the
\* frame was sent, it is on its way to the peer and the call blocks in ::recv.
PingCall(h) ==
    /\ alive[h] /\ is_valid(fd_[h])
    /\ net.phase = "idle" /\ net.seq < MaxPings
    /\ \E so \in SendOutcomes(RootHeaderSize) :
          LET p == ping(fd_[h], so, OsOk(0))
              s == send_(fd_[h], <<HeaderBytes(PingHeader)>>, so)
          IN  IF s.result.kind = "throw"
              THEN /\ lastOp' = Op("ping", h, 0, <<>>, p)
                   /\ net' = [net EXCEPT !.seq = @ + 1]
              ELSE /\ lastOp' = Op("ping_blocked", h, 0, <<>>,
                                   [trace |-> s.trace, result |-> Blocked])
                   /\ net' = [net EXCEPT !.phase = "recv", !.seq = @ + 1,
                                         !.wire = @ \cup {net.seq + 1}]
    /\ UNCHANGED <<bigEndian, alive, fd_, open>>

\* The peer answers one of the frames it was sent; the answer is queued at
\* the socket, whether or not a ping() is waiting for it.
PeerAnswer ==
    /\ net.peer = "echo"
    /\ \E req \in net.wire, bs \in Answers :
          net' = [net EXCEPT !.wire = @ \ {req},
                             !.rxq = Append(@, [bytes |-> bs, req |-> req])]
    /\ UNCHANGED <<bigEndian, alive, fd_, open, lastOp>>

\* The blocked ::recv returns the datagram at the head of the queue, and
\* ping() goes on to its end.
PingDatagram(h) ==
    /\ alive[h] /\ net.phase = "recv" /\ lastOp.h = h
    /\ net.rxq # <<>>
    /\ lastOp' = Op("ping", h, 0, <<>>,
                    ping(fd_[h], OsOk(RootHeaderSize), OsDgram(Head(net.rxq).bytes)))
    /\ net' = [net EXCEPT !.phase = "idle", !.rxq = Tail(@), !.got = Head(net.rxq)]
    /\ UNCHANGED <<bigEndian, alive, fd_, open>>

\* Nothing is queued and SO_RCVTIMEO is set: the blocked ::recv fails with a
\* timeout, and ping() goes on to its end.
PingTimeout(h) ==
    /\ alive[h] /\ net.phase = "recv" /\ lastOp.h = h
    /\ net.rxq = <<>>
    /\ net.tv # <<0, 0>>
    /\ \E e \in RecvTimeoutErrnos :
          lastOp' = Op("ping", h, 0, <<>>, ping(fd_[h], OsOk(RootHeaderSize), OsFail(e)))
    /\ net' = [net EXCEPT !.phase = "idle", !.got = NoDatagram]
    /\ UNCHANGED <<bigEndian, alive, fd_, open>>

NextLive ==
    \/ \E h \in Handles : Connect(h)
    \/ \E h \in Handles : PingCall(h)
    \/ PeerAnswer
    \/ \E h \in Handles : PingDatagram(h)
    \/ \E h \in Handles : PingTimeout(h)

\* A ::recv that can return does return: the kernel hands over a queued
\* datagram at once and ends the wait when SO_RCVTIMEO has run out.
SpecLive ==
    /\ InitLive
    /\ [][NextLive]_vars
    /\ \A h \in Handles : WF_vars(PingDatagram(h) \/ PingTimeout(h))

(***************************************************************************)
(* Properties.  lastOp describes the operation that led to the current     *)
(* state: lastOp.pre is fd_ before it, lastOp.trace the system calls it    *)
(* made, lastOp.result what it returned or threw.                          *)
(***************************************************************************)
\* The error kinds of the specification, as std::system_error values.
NotConnected == Throw("ENOTCONN", "generic")

InvalidArgument == Throw("EINVAL", "generic")

IOError == Throw("EIO", "generic")

\* A fault reported by the operating system, carried with its errno.
IsTransportError(res) == res.kind = "throw" /\ res.category = "system" /\ res.code # ""

\* The codes the specification classifies as a timeout.
TimeoutClass == {"ETIMEDOUT", "EWOULDBLOCK", "EAGAIN"}

IoOps == {"ping", "update", "send", "recv"}

\* The last operation was `op` on a handle that was valid / invalid before it.
OnValid(op) == lastOp.op = op /\ is_valid(lastOp.pre[lastOp.h])

OnInvalid(op) == lastOp.op = op /\ ~is_valid(lastOp.pre[lastOp.h])

\* The last operation moved from one handle into another one.
MovedAcross ==
    lastOp.op \in {"move_construct", "move_assign"} /\ lastOp.src # lastOp.h

\* C1: on an invalid handle (default-constructed, closed or moved-from), ping,
\* update, send_ and recv_ each fail with NotConnected (ENOTCONN) whatever the
\* arguments, and make no system call.
C1_InvalidHandleNotConnected ==
    \A op \in IoOps :
        OnInvalid(op) => lastOp.result = NotConnected /\ lastOp.trace = <<>>

\* C1 witness: send_ with an empty segment list on an invalid handle.
C1_Witness == OnInvalid("send") /\ lastOp.args = <<>>

\* C2 as claimed: after close() on a handle, or after it was moved from, the
\* next operation, whatever it is, leaves that handle invalid.
C2_ClosedStaysInvalidAlways ==
    [][\A h \in Handles :
          (\/ lastOp.op = "close" /\ lastOp.h = h
           \/ MovedAcross /\ lastOp.src = h)
          => ~is_valid(fd_'[h])]_vars

\* C2 amended: close() leaves the handle invalid and a move leaves its source
\* invalid; an invalid handle stays invalid, as long as the object lives, under
\* every operation except a move assignment into it from another, valid handle.
C2_InvalidUntilAssignedInto ==
    /\ [](lastOp.op = "close" => ~is_valid(fd_[lastOp.h]))
    /\ [](MovedAcross => ~is_valid(fd_[lastOp.src]))
    /\ [][\A h \in Handles :
            (alive[h] /\ ~is_valid(fd_[h]) /\ alive'[h] /\ is_valid(fd_'[h]))
            => /\ lastOp'.op = "move_assign"
               /\ lastOp'.h = h
               /\ lastOp'.src # h
               /\ is_valid(fd_[lastOp'.src])]_vars

\* C2 witness: a move assignment from an invalid handle into another invalid
\* handle, which is still invalid.
C2_Witness ==
    /\ lastOp.op = "move_assign" /\ lastOp.src # lastOp.h
    /\ ~is_valid(lastOp.pre[lastOp.h]) /\ ~is_valid(lastOp.pre[lastOp.src])
    /\ ~is_valid(fd_[lastOp.h])

\* C3: after a move construction or a move assignment between two handles the
\* destination holds the descriptor the source held, the source holds what
\* close() leaves in a handle (invalid_socket), and no other handle changed;
\* a self move assignment changes nothing and makes no system call.
C3_MoveTransfersOwnership ==
    /\ MovedAcross =>
          /\ fd_[lastOp.h] = lastOp.pre[lastOp.src]
          /\ fd_[lastOp.src] = close(lastOp.pre[lastOp.src], OsOk(0)).fd
          /\ ~is_valid(fd_[lastOp.src])
          /\ \A h \in Handles \ {lastOp.h, lastOp.src} : fd_[h] = lastOp.pre[h]
    /\ (lastOp.op = "move_assign" /\ lastOp.src = lastOp.h) =>
          fd_ = lastOp.pre /\ lastOp.trace = <<>>

\* C3 witness: a move assignment from a valid handle into another valid handle.
C3_Witness ==
    /\ lastOp.op = "move_assign" /\ lastOp.src # lastOp.h
    /\ is_valid(lastOp.pre[lastOp.h]) /\ is_valid(lastOp.pre[lastOp.src])

\* C4: close() (and the destructor, which calls it) on an invalid handle changes
\* nothing and makes no system call; after close() the handle is in a state on
\* which a second close() changes nothing; and no operation ever calls ::close
\* on invalid_socket.
C4_CloseIdempotent ==
    /\ \A op \in {"close", "destroy"} :
          OnInvalid(op) => fd_ = lastOp.pre /\ lastOp.trace = <<>>
    /\ lastOp.op = "close" =>
          \A co \in CloseOutcomes :
             close(fd_[lastOp.h], co) = [fd |-> fd_[lastOp.h], trace |-> <<>>]
    /\ \A i \in 1..Len(lastOp.trace) :
          lastOp.trace[i].call = "close" => lastOp.trace[i].fd # invalid_socket

\* C4 witness: close() on a handle that was already invalid.
C4_Witness == OnInvalid("close")

\* The system calls of the last operation, by position.
SendCall == lastOp.trace[1]

RecvCall == lastOp.trace[2]

\* The last operation was a ping() on a valid handle whose send succeeded and
\* whose ::recv was therefore made.
PingReceived == OnValid("ping") /\ Len(lastOp.trace) = 2

\* The fields of an 8-byte frame as the wire format lays them out
\* (multi-byte fields most significant byte first).
WireFields(bs) ==
    [magic |-> bs[1] * 16777216 + bs[2] * 65536 + bs[3] * 256 + bs[4],
     version |-> bs[5], action |-> bs[6], flags |-> bs[7] * 256 + bs[8]]

\* The number of positions at which two byte sequences of equal length differ.
Differences(a, b) == Cardinality({i \in 1..Len(a) : a[i] # b[i]})

\* C5: in ping(), a ::recv failure with a code of the timeout class is the only
\* failure that becomes `return false`: a ::sendmsg failure with any code (a
\* would-block code included) is thrown with that code, a partial send is thrown,
\* a ::recv failure with any other code is thrown with that code, and a response
\* of the wrong size is thrown as EIO.
C5_OnlyRecvTimeoutIsFalse ==
    OnValid("ping") =>
        /\ Len(lastOp.trace) >= 1
        /\ SendCall.ret < 0 => lastOp.result = Throw(SendCall.err, "system")
        /\ (SendCall.ret >= 0 /\ SendCall.ret # RootHeaderSize) => lastOp.result.kind = "throw"
        /\ Len(lastOp.trace) = 2 =>
              /\ (RecvCall.ret < 0 /\ RecvCall.err \in TimeoutClass) =>
                    lastOp.result = ReturnBool(FALSE)
              /\ (RecvCall.ret < 0 /\ RecvCall.err \notin TimeoutClass) =>
                    lastOp.result = Throw(RecvCall.err, "system")
              /\ (RecvCall.ret >= 0 /\ RecvCall.ret # RootHeaderSize) =>
                    lastOp.result = IOError
        /\ lastOp.result.kind \in {"true", "false"} =>
              /\ Len(lastOp.trace) = 2
              /\ SendCall.ret = RootHeaderSize
              /\ \/ RecvCall.ret = RootHeaderSize
                 \/ RecvCall.ret < 0 /\ RecvCall.err \in TimeoutClass

\* C5 witness: a ping() whose ::sendmsg failed with a would-block code, thrown.
C5_Witness ==
    /\ OnValid("ping") /\ Len(lastOp.trace) = 1
    /\ SendCall.ret < 0 /\ SendCall.err \in TimeoutClass
    /\ lastOp.result.kind = "throw"

\* C6: when ping() receives 8 bytes it returns true or false, never throws; it
\* returns true exactly when magic, version, action and flags of the response
\* equal those of the frame it sent, and false when the response differs from
\* that frame in any single byte.
C6_PingTrueIffEcho ==
    (PingReceived /\ RecvCall.ret = RootHeaderSize) =>
        /\ lastOp.result.kind \in {"true", "false"}
        /\ lastOp.result.kind = "true" <=>
              WireFields(RecvCall.data) = WireFields(SendCall.data)
        /\ Differences(RecvCall.data, SendCall.data) = 1 => lastOp.result.kind = "false"

\* C6 witness: a response differing from the frame sent in one byte of flags.
C6_Witness ==
    /\ PingReceived /\ RecvCall.ret = RootHeaderSize
    /\ Differences(RecvCall.data, SendCall.data) = 1
    /\ RecvCall.data[8] # SendCall.data[8]
    /\ lastOp.result = ReturnBool(FALSE)

\* C7: when ::recv in ping() succeeds with a byte count other than 8 (0
\* included), ping() throws EIO: neither true nor false, and not a timeout.
C7_WrongSizeIsIOError ==
    (PingReceived /\ RecvCall.ret >= 0 /\ RecvCall.ret # RootHeaderSize) =>
        lastOp.result = IOError

\* C7 witness: a ping() whose ::recv returned 0 bytes.
C7_Witness == PingReceived /\ RecvCall.ret = 0 /\ lastOp.result = IOError

\* C8: a ping() makes at most one ::sendmsg and then at most one ::recv, the
\* ::recv only after ::sendmsg reported the whole frame sent; an update() on a
\* valid handle makes exactly one ::sendmsg and no ::recv, and succeeds exactly
\* when that call reported the whole frame sent (on an invalid handle it makes
\* no call at all).
C8_NoRetries ==
    /\ lastOp.op = "ping" =>
          /\ Len(lastOp.trace) <= 2
          /\ Len(lastOp.trace) >= 1 => SendCall.call = "sendmsg"
          /\ Len(lastOp.trace) = 2 =>
                RecvCall.call = "recv" /\ SendCall.ret = Len(SendCall.data)
    /\ OnValid("update") =>
          /\ Len(lastOp.trace) = 1
          /\ SendCall.call = "sendmsg"
          /\ lastOp.result = ReturnVoid <=> SendCall.ret = Len(SendCall.data)
    /\ OnInvalid("update") => lastOp.trace = <<>>

\* C8 witness: an update() whose single ::sendmsg sent the whole frame.
C8_Witness ==
    OnValid("update") /\ Len(lastOp.trace) = 1 /\ lastOp.result = ReturnVoid

\* C9: send_ on a valid handle with an empty segment list, or with segments of
\* zero bytes in total, fails with InvalidArgument (EINVAL) and makes no system
\* call.
C9_EmptySendInvalidArgument ==
    (OnValid("send") /\ Len(Flatten(lastOp.args)) = 0) =>
        lastOp.result = InvalidArgument /\ lastOp.trace = <<>>

\* C9 witness: send_ of two empty segments on a valid handle.
C9_Witness == OnValid("send") /\ lastOp.args = <<<<>>, <<>>>>

\* C10 as claimed: when ::sendmsg fails, or reports a byte count other than the
\* total requested, send_ fails with a TransportError carrying the fault the
\* operating system reported.
C10_SendFailureIsTransportError ==
    (OnValid("send") /\ Len(lastOp.trace) >= 1
        /\ SendCall.ret # Len(SendCall.data)) =>
        IsTransportError(lastOp.result) /\ lastOp.result.code = SendCall.err

\* C10 amended: when ::sendmsg fails, send_ throws the errno it reported
\* (TransportError); when it reports a byte count other than the total
\* requested, send_ throws EIO (IOError), there being no fault to carry; in both
\* cases, as in every send_, ::sendmsg is called once only.
C10_SendFailureOnce ==
    OnValid("send") =>
        /\ Len(lastOp.trace) <= 1
        /\ Len(lastOp.trace) = 1 =>
              /\ SendCall.ret < 0 =>
                    /\ IsTransportError(lastOp.result)
                    /\ lastOp.result.code = SendCall.err
              /\ (SendCall.ret >= 0 /\ SendCall.ret # Len(SendCall.data)) =>
                    lastOp.result = IOError

\* C10 witness: a send_ whose ::sendmsg reported one byte less than requested.
C10_Witness ==
    /\ OnValid("send") /\ Len(lastOp.trace) = 1
    /\ SendCall.ret = Len(SendCall.data) - 1
    /\ lastOp.result = IOError

\* The last operation was a construction that threw.
ConstructFailed == lastOp.op = "construct" /\ lastOp.result.kind = "throw"

\* The positions of the calls of one name in the last operation's trace.
CallsOf(name) == {i \in 1..Len(lastOp.trace) : lastOp.trace[i].call = name}

\* C11: when construction throws, every socket it created has been closed by
\* it, later in the same construction, and is not open afterwards; with an
\* address family other than AF_INET / AF_INET6 it throws before any system
\* call, so before any socket is created.
C11_FailedConstructionLeaksNothing ==
    /\ ConstructFailed =>
          /\ \A i \in CallsOf("socket") :
                lastOp.trace[i].ret >= 0 =>
                   /\ \E j \in CallsOf("close") :
                         j > i /\ lastOp.trace[j].fd = lastOp.trace[i].ret
                   /\ lastOp.trace[i].ret \notin open
          /\ ~alive[lastOp.h]
    /\ (lastOp.op = "construct" /\ lastOp.args[1] \notin {"AF_INET", "AF_INET6"}) =>
          lastOp.result.kind = "throw" /\ lastOp.trace = <<>>

\* C11 witness: a construction that created a socket, failed at ::connect and
\* closed the socket.
C11_Witness ==
    /\ ConstructFailed
    /\ \E i \in CallsOf("connect") : lastOp.trace[i].ret # 0
    /\ CallsOf("close") # {}

\* A 16-bit value as two bytes, most significant first.
Wire16(x) == <<x \div 256, x % 256>>

\* The 8 header bytes of the protocol for one action: the magic 0x4C454452
\* ("LEDR") most significant byte first, version 0, the action, flags 0.
WireHeader(action) == <<76, 69, 68, 82, 0, action, 0, 0>>

\* C12: a ping() that reaches the network makes one sendmsg call carrying the
\* 8 bytes 4C 45 44 52 00 01 00 00; an update(R, G, B) that reaches the
\* network makes one sendmsg call carrying 14 bytes: the header with action 2
\* and zero flags, then R, G and B, two bytes each, most significant first.
\* This holds on hosts of either byte order.
C12_WireFormat ==
    /\ (lastOp.op = "ping" /\ OnValid("ping")) =>
          /\ Cardinality(CallsOf("sendmsg")) = 1
          /\ SendCall.call = "sendmsg"
          /\ SendCall.data = WireHeader(1)
          /\ Len(SendCall.data) = 8
    /\ (lastOp.op = "update" /\ OnValid("update")) =>
          /\ Len(lastOp.trace) = 1
          /\ SendCall.call = "sendmsg"
          /\ SendCall.data = WireHeader(2) \o Wire16(lastOp.args[1])
                               \o Wire16(lastOp.args[2]) \o Wire16(lastOp.args[3])
          /\ Len(SendCall.data) = 14

\* C12 witness: an update with channel values whose two bytes differ, sent
\* whole from a little-endian host.
C12_Witness ==
    /\ lastOp.op = "update"
    /\ ~bigEndian
    /\ lastOp.args = <<258, 65280, 3>>
    /\ lastOp.result.kind = "void"
    /\ SendCall.ret = 14

\* The handles that exist and hold descriptor d.
Owners(d) == {h \in Handles : alive[h] /\ fd_[h] = d}

\* Every open descriptor is held by exactly one handle, and every valid
\* handle holds an open descriptor.
ExclusiveOwnership ==
    /\ \A d \in open : Cardinality(Owners(d)) = 1
    /\ \A h \in Handles : (alive[h] /\ is_valid(fd_[h])) => fd_[h] \in open

\* Every ::close of a step is made on a descriptor that was open when the
\* step began or was created by the step, no descriptor is closed twice in a
\* step, and a closed descriptor is not open afterwards.
ClosedOnce ==
    \A i \in 1..Len(lastOp'.trace) :
       lastOp'.trace[i].call = "close" =>
          /\ lastOp'.trace[i].fd \in open \cup Made(lastOp'.trace)
          /\ lastOp'.trace[i].fd \notin open'
          /\ \A j \in 1..Len(lastOp'.trace) :
                (lastOp'.trace[j].call = "close" /\ j # i) =>
                   lastOp'.trace[j].fd # lastOp'.trace[i].fd

\* A move assignment into a valid handle from another handle closes the
\* descriptor the destination held, and only that one.
AssignClosesPrevious ==
    (/\ lastOp'.op = "move_assign"
     /\ lastOp'.h # lastOp'.src
     /\ is_valid(fd_[lastOp'.h])) =>
       /\ Len(lastOp'.trace) = 1
       /\ lastOp'.trace[1].call = "close"
       /\ lastOp'.trace[1].fd = fd_[lastOp'.h]
       /\ fd_[lastOp'.h] \notin open'

\* C16: at all times each open descriptor belongs to exactly one handle and
\* each valid handle owns one open descriptor; each descriptor is closed
\* exactly once (never while already closed, never twice); move assignment
\* into a valid handle closes the destination's previous descriptor.
C16_ExclusiveOwnership ==
    /\ []ExclusiveOwnership
    /\ [][ClosedOnce /\ AssignClosesPrevious]_vars

\* C16 witness: a move assignment of a valid handle into another valid handle
\* has just closed the destination's previous descriptor.
C16_Witness ==
    /\ lastOp.op = "move_assign"
    /\ lastOp.h # lastOp.src
    /\ is_valid(lastOp.pre[lastOp.h])
    /\ is_valid(lastOp.pre[lastOp.src])
    /\ fd_[lastOp.h] = lastOp.pre[lastOp.src]
    /\ lastOp.pre[lastOp.h] \notin open

\* The error numbers of the failed ::connect / ::setsockopt calls of the last
\* operation.
FailedSetupCodes ==
    {lastOp.trace[i].err : i \in {j \in CallsOf("connect") \cup CallsOf("setsockopt") :
                                     lastOp.trace[j].ret # 0}}

\* C17: when construction fails at ::connect or at ::setsockopt, the error
\* thrown carries the error number of that failing call, whatever the ::close
\* that releases the socket answers.
C17_ReportsFailingCallCode ==
    (ConstructFailed /\ FailedSetupCodes # {}) =>
       /\ lastOp.result.category = "system"
       /\ lastOp.result.code \in FailedSetupCodes

\* The public operations that only use the socket.
QueryOps == {"ping", "update", "is_valid"}

\* C18: a step of ping(), update() or is_valid() leaves every handle's
\* descriptor, the set of open descriptors and the set of existing handles as
\* they were, whatever the call returns or throws; and is_valid() answers
\* whether the handle holds a descriptor.
C18_QueriesKeepTheSocket ==
    [][lastOp'.op \in QueryOps =>
          /\ fd_' = fd_ /\ open' = open /\ alive' = alive
          /\ lastOp'.pre = fd_
          /\ lastOp'.op = "is_valid" =>
                lastOp'.result = ReturnBool(fd_[lastOp'.h] \in open)]_vars

\* C18 witness: a ping() on a valid handle ended with an exception after the
\* network was used, and the handle still holds its open descriptor.
C18_Witness ==
    /\ OnValid("ping")
    /\ lastOp.result.kind = "throw"
    /\ lastOp.trace # <<>>
    /\ fd_[lastOp.h] = lastOp.pre[lastOp.h]
    /\ fd_[lastOp.h] \in open

\* C13: for the channel values given to update(), reading the six payload
\* bytes it sent back into 16-bit values and converting each from network to
\* host order gives the values given, on a little-endian and on a big-endian
\* host.
C13_PayloadRoundTrip ==
    (lastOp.op = "update" /\ lastOp.result.kind = "void") =>
       /\ Len(SendCall.data) = RootHeaderSize + 6
       /\ DeserializeValues(SubSeq(SendCall.data, RootHeaderSize + 1, RootHeaderSize + 6))
             = lastOp.args

\* C13 witness: an update sent from a little-endian host with a value whose
\* two bytes differ.
C13_Witness ==
    /\ lastOp.op = "update" /\ lastOp.result.kind = "void"
    /\ ~bigEndian
    /\ lastOp.args[1] = 256 * 127 + 254
    /\ DeserializeValues(SubSeq(SendCall.data, 9, 14))[1] = 32766

\* The setsockopt(SO_RCVTIMEO) calls of the last operation.
TimeoutCalls == {lastOp.trace[i] : i \in CallsOf("setsockopt")}

\* C14: a construction given a timeout of zero or fewer milliseconds passes
\* the all-zero timeval (no timeout) to setsockopt(SO_RCVTIMEO); given t > 0
\* it passes tv_sec = t / 1000 and tv_usec = (t % 1000) * 1000, with
\* 0 <= tv_usec < 1000000, which is t milliseconds again and not all-zero.
C14_TimeoutConfiguration ==
    (lastOp.op = "construct" /\ TimeoutCalls # {}) =>
       \A c \in TimeoutCalls :
          LET t == lastOp.args[2]
              tv_sec == c.data[1]
              tv_usec == c.data[2]
          IN  /\ t <= 0 => (tv_sec = 0 /\ tv_usec = 0)
              /\ t > 0 =>
                    /\ tv_sec = t \div 1000
                    /\ tv_usec = (t % 1000) * 1000
                    /\ tv_usec >= 0 /\ tv_usec < 1000000
                    /\ tv_usec % 1000 = 0
                    /\ tv_sec * 1000 + tv_usec \div 1000 = t
                    /\ ~(tv_sec = 0 /\ tv_usec = 0)

\* C14 witness: a construction with a timeout below one second configured a
\* timeval of microseconds only.
C14_Witness ==
    /\ lastOp.op = "construct" /\ lastOp.result.kind = "void"
    /\ lastOp.args[2] = 999
    /\ \E c \in TimeoutCalls : c.data = <<0, 999000>>

\* A ping() has sent its frame and is blocked in ::recv.
PingBlocked == net.phase = "recv"

\* The last operation is a ping() that returned after its frame was sent.
PingReturned == lastOp.op = "ping" /\ Len(lastOp.trace) = 2

\* C15: on a handle constructed with a positive timeout every ping() that
\* blocks in ::recv returns (a ping() that fails before or in the send has
\* returned already); when the peer never answers, a ping() whose frame was
\* sent returns false and throws nothing. On a handle constructed with a
\* timeout of zero or less and a peer that never answers, a ping() blocked in
\* ::recv stays blocked.
C15_PingTermination ==
    /\ (PingBlocked /\ net.timeout_ms > 0) ~> (net.phase = "idle" /\ lastOp.op = "ping")
    /\ []((PingReturned /\ net.peer = "silent") =>
             (net.timeout_ms > 0 /\ lastOp.result = ReturnBool(FALSE)))
    /\ [][(PingBlocked /\ net.timeout_ms <= 0 /\ net.peer = "silent") =>
             (net'.phase = "recv" /\ lastOp' = lastOp)]_vars

\* C15 witness: with a positive timeout and a peer that never answers, a
\* ping() blocked in ::recv and then returned false.
C15_Witness ==
    /\ PingReturned
    /\ net.peer = "silent" /\ net.timeout_ms > 0
    /\ lastOp.result.kind = "false"
    /\ lastOp.trace[2].call = "recv" /\ lastOp.trace[2].ret < 0

\* C19: a ping() returns true only when the datagram it received is the
\* peer's answer to the frame this same call sent, never the answer to the
\* frame of an earlier call.
C19_TrueMeansOwnEcho ==
    (PingReturned /\ lastOp.result.kind = "true") =>
       /\ net.got.req = net.seq
       /\ net.seq \notin net.wire

\* C20: a ping() returns true only when the datagram it received is exactly
\* as long as the header, 8 bytes.
C20_TrueMeansEightBytes ==
    (PingReturned /\ lastOp.result.kind = "true") =>
       Len(net.got.bytes) = RootHeaderSize

====
